---- MODULE Spec2Model ----
(***************************************************************************)
(* ChunkPruningRule of the optimizer (chunk_pruning_rule.cpp) as a state   *)
(* machine: one stored table node, the plan above it, the table it scans,  *)
(* and the rule object with its cache of excluded chunks per predicate     *)
(* node.  RandomCache (random_cache.hpp) is the second state machine: the   *)
(* entry list, the key map and the capacity of one cache.                  *)
(***************************************************************************)
EXTENDS Integers, Sequences, FiniteSets, TLC

VARIABLES
  plan,                  \* the LQP above the stored table node: kind, outputs, matches per node
  table,                 \* the stored table: one record per ChunkID (index ChunkID + 1)
  predicates,            \* per predicate node: what OperatorScanPredicate::from_expression yields
  pruned_chunk_ids,      \* StoredTableNode::pruned_chunk_ids(), ascending
  table_statistics,      \* StoredTableNode::table_statistics (NoStatistics: not set)
  excluded_chunk_ids_by_predicate_node,  \* the rule's member cache
  pc,                    \* position of the rule inside _apply_to_plan_without_subqueries
  predicate_chains,      \* chains found for the stored table node
  chain_idx,             \* index of the chain _compute_exclude_list is running on
  predicate_idx,         \* index of the predicate node inside that chain
  tuple_idx,             \* index of the operator predicate inside that node
  global_excluded_chunk_ids,
  local_excluded_chunk_ids,
  pruned_chunk_id_sets,  \* one exclusion set per finished chain
  applications,          \* rule applications started so far
  failed,                \* the DebugAssert of step (3.2) fired
  pruned_before,         \* pruned_chunk_ids when the running application started
  normalizations,        \* per node: from_expression calls in the running application
  subtractions,          \* per ChunkID: times its rows entered num_rows_pruned in the running application
  corrections,           \* _prune_table_statistics calls of the running application
  walk_node,             \* the node find_predicate_chains_recursively was called on
  walk_chain,            \* the chain it was called with
  list,                  \* RandomCache::_list: the key/value pairs (index + 1)
  map,                   \* RandomCache::_map: per key its index into _list, or NoIndex
  capacity,              \* AbstractCache::_capacity
  returned,              \* what the last set() returned: the evicted key or NoKey
  value_read,            \* what the last get() returned
  crashed,               \* an access outside _list ended the process
  only_sets              \* only set() and get() were called since the construction

vars == <<plan, table, predicates, pruned_chunk_ids, table_statistics,
          excluded_chunk_ids_by_predicate_node, pc, predicate_chains, chain_idx,
          predicate_idx, tuple_idx, global_excluded_chunk_ids, local_excluded_chunk_ids,
          pruned_chunk_id_sets, applications, failed, pruned_before, normalizations,
          subtractions, corrections, walk_node, walk_chain,
          list, map, capacity, returned, value_read, crashed, only_sets>>

finder_vars == <<walk_node, walk_chain>>

cache_vars == <<list, map, capacity, returned, value_read, crashed, only_sets>>

\* ------------------------------------------------------------------ bounds

NumChunks == 3
MaxApplications == 2
NumNodes == 4
NumKeys == 4
NumValues == 2
MaxCapacity == 3

\* ------------------------------------------------------------- plan nodes

StoredTableNode == 1

is_non_filtering_node(type) == type \in {"Alias", "Projection", "Sort"}

\* A walk that also passes through aggregates.
IsChainCompatibleOrAggregate(type) ==
  type \in {"Predicate", "Validate", "StoredTable", "Join", "Aggregate"} \/ is_non_filtering_node(type)

IsChainCompatible(type) ==
  \/ type = "Predicate"
  \/ type = "Validate"
  \/ type = "StoredTable"
  \/ type = "Join"
  \/ is_non_filtering_node(type)

\* The test of the visit_expression lambda: every LQPColumnExpression of the
\* predicate has the stored table node as original_node.
PredicateMatchesTable(p, node) == p.matches[node]

\* A chain that takes every predicate node, whatever its columns refer to.
ExtendChainAnyPredicate(p, node, chain) ==
  IF p.type[node] = "Predicate" THEN Append(chain, node) ELSE chain

ExtendChain(p, node, chain) ==
  IF p.type[node] = "Predicate" /\ PredicateMatchesTable(p, node)
    THEN Append(chain, node)
    ELSE chain

\* A chain shared by the branches: a branch starts from what the branch before it left.
BranchInputByReference(chain, continued) ==
  IF continued = <<>> THEN chain ELSE continued[Len(continued)]

\* The chain handed to the recursion for one output: a copy of the chain of
\* the calling frame (the parameter is taken by value).
BranchInput(chain, continued) == chain

RECURSIVE find_predicate_chains_recursively(_, _, _)
RECURSIVE BranchChains(_, _, _, _)

\* A walk that follows the first output of a node only.
BranchChainsFirstOnly(p, outs, chain, acc) ==
  IF outs = <<>> THEN acc ELSE find_predicate_chains_recursively(p, Head(outs), chain)

BranchChains(p, outs, chain, acc) ==
  IF outs = <<>>
    THEN acc
    ELSE BranchChains(p, Tail(outs), chain,
           acc \o find_predicate_chains_recursively(p, Head(outs), BranchInput(chain, acc)))

find_predicate_chains_recursively(p, node, current_predicate_chain) ==
  IF IsChainCompatible(p.type[node])
    THEN LET chain == ExtendChain(p, node, current_predicate_chain) IN
         IF Len(p.outputs[node]) > 1
           THEN BranchChains(p, p.outputs[node], chain, <<>>)
           ELSE IF Len(p.outputs[node]) = 1
                  THEN find_predicate_chains_recursively(p, p.outputs[node][1], chain)
                  ELSE <<>>
    ELSE <<current_predicate_chain>>

\* --------------------------------------------------------------- values

\* An AllParameterVariant: a variant (a scalar of a data type), an LQP column
\* or a placeholder.  A float scalar is kept in halves (v = 3 is 1.5), an int
\* or string scalar as its integer (strings by their rank).
Variant(type, v) == [kind |-> "variant", type |-> type, v |-> v]
ColumnValue == [kind |-> "column", type |-> "none", v |-> 0]
PlaceholderValue == [kind |-> "placeholder", type |-> "none", v |-> 0]
NoValue == [kind |-> "none", type |-> "none", v |-> 0]

is_variant(value) == value.kind = "variant"

\* std::nullopt of the cast
NoCast == [ok |-> FALSE, v |-> 0]

lossless_variant_cast(value, data_type) ==
  IF value.type = data_type
    THEN [ok |-> TRUE, v |-> value.v]
    ELSE IF value.type = "float" /\ data_type = "int"
           THEN IF value.v % 2 = 0 THEN [ok |-> TRUE, v |-> value.v \div 2] ELSE NoCast
           ELSE NoCast

OperatorScanPredicate(column_id, condition, value, value2) ==
  [column_id |-> column_id, predicate_condition |-> condition, value |-> value, value2 |-> value2]

\* std::nullopt of from_expression
NotNormalizable == [ok |-> FALSE, operator_predicates |-> <<>>]
Normalized(ops) == [ok |-> TRUE, operator_predicates |-> ops]

\* ---------------------------------------------------------------- table

\* Column 0 is an int column (a RangeFilter per segment), column 1 a string
\* column (a MinMaxFilter per segment); a row is <<a, b>>.
ColumnDataTypes == <<"int", "string">>

ColumnCount == Len(ColumnDataTypes)

is_arithmetic(data_type) == data_type \in {"int", "float"}

NoFilter == [present |-> FALSE, ranges |-> {}]

\* A filter as the set of closed ranges it recorded; a MinMaxFilter holds one.
RangeFilterOf(vals) == [present |-> TRUE, ranges |-> {<<v, v>> : v \in vals}]

MinMaxFilterOf(vals) ==
  [present |-> TRUE,
   ranges |-> {<<CHOOSE lo \in vals : \A v \in vals : lo <= v,
                 CHOOSE hi \in vals : \A v \in vals : hi >= v>>}]

\* The AttributeStatistics a finalized chunk carries for one column.
SegmentStatisticsOf(rows, column_id) ==
  LET vals == {r[column_id + 1] : r \in rows}
      data_type == ColumnDataTypes[column_id + 1]
  IN [data_type |-> data_type,
      range_filter |-> IF is_arithmetic(data_type) /\ vals # {} THEN RangeFilterOf(vals) ELSE NoFilter,
      min_max_filter |-> IF ~is_arithmetic(data_type) /\ vals # {} THEN MinMaxFilterOf(vals) ELSE NoFilter]

NoPruningStatistics == [present |-> FALSE, segments |-> <<>>]

PruningStatisticsOf(rows) ==
  [present |-> TRUE, segments |-> [c \in 1..ColumnCount |-> SegmentStatisticsOf(rows, c - 1)]]

\* table.get_chunk(chunk_id) == nullptr
MissingChunk == [present |-> FALSE, rows |-> {}, pruning_statistics |-> NoPruningStatistics]

Chunk(rows, with_statistics) ==
  [present |-> TRUE, rows |-> rows,
   pruning_statistics |-> IF with_statistics THEN PruningStatisticsOf(rows) ELSE NoPruningStatistics]

LowRows == {<<0, 0>>, <<1, 1>>}
HighRows == {<<2, 1>>, <<2, 2>>, <<3, 2>>}

ChunkChoices ==
  {MissingChunk, Chunk(LowRows, FALSE), Chunk(LowRows, TRUE), Chunk(HighRows, TRUE)}

chunk_count(t) == Len(t)
get_chunk(t, chunk_id) == t[chunk_id + 1]
ChunkSize(chunk) == Cardinality(chunk.rows)
ChunkIDs(t) == 0..(chunk_count(t) - 1)

RECURSIVE SumOfSizes(_, _)
SumOfSizes(t, ids) ==
  IF ids = {} THEN 0
  ELSE LET id == CHOOSE x \in ids : TRUE
       IN ChunkSize(get_chunk(t, id)) + SumOfSizes(t, ids \ {id})

\* ----------------------------------------------------------- statistics

\* does_not_contain of RangeFilter and MinMaxFilter: the recorded ranges have
\* no value that satisfies the condition.
does_not_contain(filter, condition, value, value2) ==
  LET rs == filter.ranges IN
  CASE condition = "Equals" -> \A r \in rs : value < r[1] \/ value > r[2]
    [] condition = "LessThan" -> \A r \in rs : value <= r[1]
    [] condition = "LessThanEquals" -> \A r \in rs : value < r[1]
    [] condition = "GreaterThan" -> \A r \in rs : value >= r[2]
    [] condition = "GreaterThanEquals" -> \A r \in rs : value > r[2]
    [] condition = "BetweenInclusive" ->
         value2.ok /\ \A r \in rs : value > r[2] \/ value2.v < r[1]
    [] OTHER -> FALSE

can_prune(segment_statistics, condition, value, value2) ==
  \/ /\ is_arithmetic(segment_statistics.data_type)
     /\ segment_statistics.range_filter.present
     /\ does_not_contain(segment_statistics.range_filter, condition, value, value2)
  \/ /\ segment_statistics.min_max_filter.present
     /\ does_not_contain(segment_statistics.min_max_filter, condition, value, value2)

\* StoredTableNode::table_statistics not set
NoStatistics == [present |-> FALSE, row_count |-> 0, column_statistics |-> <<>>]

\* table.table_statistics(): the row count of the table, untouched columns.
TableStatisticsOf(t) ==
  [present |-> TRUE,
   row_count |-> SumOfSizes(t, {id \in ChunkIDs(t) : get_chunk(t, id).present}),
   column_statistics |-> [c \in 1..ColumnCount |-> <<>>]]

\* A column's statistics object is kept as the transformations applied to it.
pruned(statistics, num_rows_pruned, condition, value, value2) ==
  Append(statistics, [op |-> "pruned", rows |-> num_rows_pruned, condition |-> condition,
                      value |-> value, value2 |-> value2, num |-> 0, den |-> 0])

\* scaled(1 - num_rows_pruned / row_count), the factor kept as num / den
scaled(statistics, num, den) ==
  Append(statistics, [op |-> "scaled", rows |-> 0, condition |-> "none",
                      value |-> NoValue, value2 |-> NoValue, num |-> num, den |-> den])

\* A correction that scales every column, the column of the predicate included.
PruneTableStatisticsScalingAll(old_statistics, predicate, num_rows_pruned) ==
  [present |-> TRUE,
   row_count |-> old_statistics.row_count - num_rows_pruned,
   column_statistics |->
     [c \in 1..Len(old_statistics.column_statistics) |->
        scaled(old_statistics.column_statistics[c],
               old_statistics.row_count - num_rows_pruned, old_statistics.row_count)]]

prune_table_statistics(old_statistics, predicate, num_rows_pruned) ==
  [present |-> TRUE,
   row_count |-> old_statistics.row_count - num_rows_pruned,
   column_statistics |->
     [c \in 1..Len(old_statistics.column_statistics) |->
        IF c - 1 = predicate.column_id
          THEN pruned(old_statistics.column_statistics[c], num_rows_pruned,
                      predicate.predicate_condition, predicate.value, predicate.value2)
          ELSE scaled(old_statistics.column_statistics[c],
                      old_statistics.row_count - num_rows_pruned, old_statistics.row_count)]]

\* A correction that always starts from the statistics of the table.
OldStatisticsOfTable(override, t) == TableStatisticsOf(t)

\* Lines 511-512: the statistics a correction starts from: those set on the
\* stored table node if there are any, else those of the table.
OldStatistics(override, t) == IF override.present THEN override ELSE TableStatisticsOf(t)

\* An update of the statistics for every operator predicate that was scanned.
StatisticsUpdatedAlways(num_rows_pruned) == num_rows_pruned >= 0

\* Line 510: the statistics are only replaced when rows were pruned.
StatisticsNeedUpdate(num_rows_pruned) == num_rows_pruned > 0

\* ------------------------------------------------ _compute_exclude_list

\* A cast that truncates instead of giving up (static_cast of a float to an int).
LossyVariantCast(value, data_type) ==
  IF value.type = "float" /\ data_type = "int"
    THEN [ok |-> TRUE, v |-> value.v \div 2]
    ELSE IF value.type = data_type THEN [ok |-> TRUE, v |-> value.v] ELSE NoCast

\* The cast of lines 464 and 478: nullopt unless the value fits the column type.
CastForPruning(value, data_type) == lossless_variant_cast(value, data_type)

\* A test that lets every variant through, whether it casts or not.
TupleIsUsableIfVariant(operator_predicate) ==
  /\ is_variant(operator_predicate.value)
  /\ operator_predicate.value2.kind # "none" => is_variant(operator_predicate.value2)

\* Lines 455-482: the operator predicate is skipped (continue) unless its
\* values are variants that cast losslessly to the column's data type.
TupleIsUsable(operator_predicate) ==
  LET column_data_type == ColumnDataTypes[operator_predicate.column_id + 1] IN
  /\ is_variant(operator_predicate.value)
  /\ CastForPruning(operator_predicate.value, column_data_type).ok
  /\ operator_predicate.value2.kind # "none" =>
       /\ is_variant(operator_predicate.value2)
       /\ CastForPruning(operator_predicate.value2, column_data_type).ok

\* A chunk without pruning statistics taken as excluded.
ChunkIsExcludedWithoutStatistics(chunk, operator_predicate) ==
  LET column_data_type == ColumnDataTypes[operator_predicate.column_id + 1]
      value == CastForPruning(operator_predicate.value, column_data_type)
      value2 == IF operator_predicate.value2.kind = "none"
                  THEN NoCast
                  ELSE CastForPruning(operator_predicate.value2, column_data_type)
  IN /\ chunk.present
     /\ \/ ~chunk.pruning_statistics.present
        \/ can_prune(chunk.pruning_statistics.segments[operator_predicate.column_id + 1],
                     operator_predicate.predicate_condition, value.v, value2)

\* Lines 488-496: the chunks whose pruning statistics contradict the operator predicate.
ChunkIsExcluded(chunk, operator_predicate) ==
  LET column_data_type == ColumnDataTypes[operator_predicate.column_id + 1]
      value == CastForPruning(operator_predicate.value, column_data_type)
      value2 == IF operator_predicate.value2.kind = "none"
                  THEN NoCast
                  ELSE CastForPruning(operator_predicate.value2, column_data_type)
  IN /\ chunk.present
     /\ chunk.pruning_statistics.present
     /\ can_prune(chunk.pruning_statistics.segments[operator_predicate.column_id + 1],
                  operator_predicate.predicate_condition, value.v, value2)

ExcludedChunkIDs(t, operator_predicate) ==
  {chunk_id \in ChunkIDs(t) : ChunkIsExcluded(get_chunk(t, chunk_id), operator_predicate)}

SeqToSet(s) == {s[i] : i \in 1..Len(s)}

\* Lines 497-501: the excluded chunks whose rows enter num_rows_pruned.
NewlyPrunedChunkIDs(excluded, already_pruned_chunk_ids) ==
  {chunk_id \in excluded : chunk_id \notin SeqToSet(already_pruned_chunk_ids)}

\* ------------------------------------------------- intersect_chunk_ids

\* A loop that stops after the second set.
IntersectFromOnce(chunk_id_set, chunk_id_sets, set_idx) ==
  IF set_idx > Len(chunk_id_sets) THEN chunk_id_set ELSE chunk_id_set \cap chunk_id_sets[set_idx]

RECURSIVE IntersectFrom(_, _, _)
IntersectFrom(chunk_id_set, chunk_id_sets, set_idx) ==
  IF set_idx > Len(chunk_id_sets)
    THEN chunk_id_set
    ELSE IF chunk_id_sets[set_idx] = {}
           THEN {}
           ELSE IntersectFrom(chunk_id_set \cap chunk_id_sets[set_idx], chunk_id_sets, set_idx + 1)

\* The union in place of the intersection.
UnionOfChunkIDs(chunk_id_sets) ==
  UNION {chunk_id_sets[i] : i \in 1..Len(chunk_id_sets)}

intersect_chunk_ids(chunk_id_sets) ==
  IF Len(chunk_id_sets) = 0 \/ chunk_id_sets[1] = {}
    THEN {}
    ELSE IF Len(chunk_id_sets) = 1
           THEN chunk_id_sets[1]
           ELSE IntersectFrom(chunk_id_sets[1], chunk_id_sets, 2)

\* std::vector<ChunkID>(set.begin(), set.end()): the elements in ascending order
RECURSIVE Ascending(_)
Ascending(set) ==
  IF set = {} THEN <<>>
  ELSE LET least == CHOOSE x \in set : \A y \in set : x <= y
       IN <<least>> \o Ascending(set \ {least})

\* ------------------------------------------------------------ RandomCache

\* std::nullopt, the result of a set() that evicted nothing
NoKey == 0

\* _map.end(): the key is not in the map
NoIndex == -1

\* No get() was called yet.
NothingRead == 0

Keys == 1..NumKeys
Values == 1..NumValues

KeyValuePair(key, value) == [first |-> key, second |-> value]

EmptyMap == [key \in Keys |-> NoIndex]

has(key) == map[key] # NoIndex

size == Cardinality({key \in Keys : map[key] # NoIndex})

\* An index that operator[] of _list may be used with.
InRange(l, index) == index >= 0 /\ index < Len(l)

\* The values of _rand(_gen): uniform_int_distribution<>(0, capacity - 1).
RandomIndexes(c) == 0..(c - 1)

\* A cache that only replaces once it holds more entries than its capacity.
CapacityExceeded(l, c) == Len(l) > c

\* Line 36: the list holds capacity entries, an entry has to go.
CapacityReached(l, c) == Len(l) >= c

\* _list.erase(_list.cbegin() + difference)
EraseAt(l, difference) ==
  [i \in 1..(Len(l) - 1) |-> IF i <= difference THEN l[i] ELSE l[i + 1]]

\* Lines 84-87: the loop of resize(); the bound _list.size() - capacity is
\* read again before every round, the indexes kept in _map stay as they are.
RECURSIVE ResizeLoop(_, _, _, _)
ResizeLoop(l, m, c, difference) ==
  IF difference < Len(l) - c
    THEN ResizeLoop(EraseAt(l, difference),
                    [m EXCEPT ![l[difference + 1].first] = NoIndex], c, difference + 1)
    ELSE [list |-> l, map |-> m]

\* The cache of a state machine that has none.
CacheUnused ==
  /\ list = <<>>
  /\ map = EmptyMap
  /\ capacity = 1
  /\ returned = NoKey
  /\ value_read = NothingRead
  /\ crashed = FALSE
  /\ only_sets = TRUE

\* ---------------------------------------------------------------- inputs

Plan(types, outputs, matches) == [type |-> types, outputs |-> outputs, matches |-> matches]

Nodes(p) == 1..Len(p.type)

\* Plans above the stored table node (node 1): a straight chain below a root,
\* a fan-out at the stored table node, a predicate shared by two branches, a
\* predicate of another table below a join, a plan whose topmost node is
\* chain compatible, and an aggregate directly on the stored table node.
Plans ==
  { Plan(<<"StoredTable", "Predicate", "Predicate", "Root">>,
         <<<<2>>, <<3>>, <<4>>, <<>>>>, <<FALSE, TRUE, TRUE, FALSE>>),
    Plan(<<"StoredTable", "Predicate", "Predicate", "Union">>,
         <<<<2, 3>>, <<4>>, <<4>>, <<>>>>, <<FALSE, TRUE, TRUE, FALSE>>),
    Plan(<<"StoredTable", "Predicate", "Predicate", "Validate", "Aggregate">>,
         <<<<2>>, <<3, 4>>, <<5>>, <<5>>, <<>>>>, <<FALSE, TRUE, TRUE, FALSE, FALSE>>),
    Plan(<<"StoredTable", "Predicate", "Join", "Predicate", "Root">>,
         <<<<2>>, <<3>>, <<4>>, <<5>>, <<>>>>, <<FALSE, FALSE, FALSE, TRUE, FALSE>>),
    Plan(<<"StoredTable", "Predicate", "Projection">>,
         <<<<2>>, <<3>>, <<>>>>, <<FALSE, TRUE, FALSE>>),
    Plan(<<"StoredTable", "Aggregate">>,
         <<<<2>>, <<>>>>, <<FALSE, FALSE>>) }

\* What from_expression yields for a predicate node: nullopt, a > 1, a < 2,
\* three operator predicates of which two are unusable (a < 2.5 on the int
\* column, a BETWEEN 0 AND ?) and one is b = 2, and a >= 2.0 AND a BETWEEN 2 AND 3.
PredicateChoices ==
  { NotNormalizable,
    Normalized(<<OperatorScanPredicate(0, "GreaterThan", Variant("int", 1), NoValue)>>),
    Normalized(<<OperatorScanPredicate(0, "LessThan", Variant("int", 2), NoValue)>>),
    Normalized(<<OperatorScanPredicate(0, "LessThan", Variant("float", 5), NoValue),
                 OperatorScanPredicate(0, "BetweenInclusive", Variant("int", 0), PlaceholderValue),
                 OperatorScanPredicate(1, "Equals", Variant("string", 2), NoValue)>>),
    Normalized(<<OperatorScanPredicate(0, "GreaterThanEquals", Variant("float", 4), NoValue),
                 OperatorScanPredicate(0, "BetweenInclusive", Variant("int", 2), Variant("int", 3))>>) }

IsMatchingPredicate(p, node) == p.type[node] = "Predicate" /\ p.matches[node]

\* ------------------------------------------------------------------- Init

NoCounts(domain) == [x \in domain |-> 0]

NotCached == [cached |-> FALSE, chunk_ids |-> {}]

EmptyCache(domain) == [x \in domain |-> NotCached]

Init ==
  /\ plan \in Plans
  /\ table \in [1..NumChunks -> ChunkChoices]
  /\ predicates \in [Nodes(plan) -> PredicateChoices]
  /\ \A node \in Nodes(plan) : ~IsMatchingPredicate(plan, node) => predicates[node] = NotNormalizable
  /\ pruned_chunk_ids = <<>>
  /\ table_statistics = NoStatistics
  /\ excluded_chunk_ids_by_predicate_node = EmptyCache(Nodes(plan))
  /\ pc = "idle"
  /\ predicate_chains = <<>>
  /\ chain_idx = 0
  /\ predicate_idx = 0
  /\ tuple_idx = 0
  /\ global_excluded_chunk_ids = {}
  /\ local_excluded_chunk_ids = {}
  /\ pruned_chunk_id_sets = <<>>
  /\ applications = 0
  /\ failed = FALSE
  /\ pruned_before = <<>>
  /\ normalizations = NoCounts(Nodes(plan))
  /\ subtractions = NoCounts(ChunkIDs(table))
  /\ corrections = <<>>
  /\ walk_node = StoredTableNode
  /\ walk_chain = <<>>
  /\ CacheUnused

\* --------------------------------------- _apply_to_plan_without_subqueries

\* Steps (1) and (2): the chains of the stored table node.  Without a chain
\* step (3) skips the node.
Apply ==
  /\ pc \in {"idle", "done"}
  /\ applications < MaxApplications
  /\ applications' = applications + 1
  /\ predicate_chains' = find_predicate_chains_recursively(plan, walk_node, walk_chain)
  /\ pc' = IF predicate_chains' = <<>> THEN "done" ELSE "chain"
  /\ chain_idx' = 1
  /\ predicate_idx' = 1
  /\ tuple_idx' = 0
  /\ global_excluded_chunk_ids' = {}
  /\ local_excluded_chunk_ids' = {}
  /\ pruned_chunk_id_sets' = <<>>
  /\ pruned_before' = pruned_chunk_ids
  /\ normalizations' = NoCounts(Nodes(plan))
  /\ subtractions' = NoCounts(ChunkIDs(table))
  /\ corrections' = <<>>
  /\ UNCHANGED <<finder_vars, cache_vars, plan, table, predicates, pruned_chunk_ids, table_statistics,
                 excluded_chunk_ids_by_predicate_node, failed>>

CurrentChain == predicate_chains[chain_idx]
CurrentNode == CurrentChain[predicate_idx]
CurrentTuple == predicates[CurrentNode].operator_predicates[tuple_idx]

\* _compute_exclude_list returns `exclusions` for the running chain: step
\* (3.1) keeps it and goes on with the next chain, or with step (3.2).
ReturnExclusions(exclusions) ==
  /\ pruned_chunk_id_sets' = Append(pruned_chunk_id_sets, exclusions)
  /\ global_excluded_chunk_ids' = {}
  /\ local_excluded_chunk_ids' = {}
  /\ predicate_idx' = 1
  /\ tuple_idx' = 0
  /\ IF chain_idx < Len(predicate_chains)
       THEN chain_idx' = chain_idx + 1 /\ pc' = "chain"
       ELSE chain_idx' = chain_idx /\ pc' = "intersect"

\* The value _compute_exclude_list returns when from_expression yields nullopt.
ExclusionsWithoutNormalization(global_excluded) == {}

\* Line 524: the loop over the chain has ended.
ChainEvaluated ==
  /\ pc = "chain"
  /\ predicate_idx > Len(CurrentChain)
  /\ ReturnExclusions(global_excluded_chunk_ids)
  /\ UNCHANGED <<finder_vars, cache_vars, plan, table, predicates, pruned_chunk_ids, table_statistics,
                 excluded_chunk_ids_by_predicate_node, predicate_chains, applications,
                 failed, pruned_before, normalizations, subtractions, corrections>>

\* Lines 426-433: the node is in the cache.
CachedPredicate ==
  /\ pc = "chain"
  /\ predicate_idx <= Len(CurrentChain)
  /\ excluded_chunk_ids_by_predicate_node[CurrentNode].cached
  /\ global_excluded_chunk_ids' =
       global_excluded_chunk_ids \cup excluded_chunk_ids_by_predicate_node[CurrentNode].chunk_ids
  /\ predicate_idx' = predicate_idx + 1
  /\ UNCHANGED <<finder_vars, cache_vars, plan, table, predicates, pruned_chunk_ids, table_statistics,
                 excluded_chunk_ids_by_predicate_node, pc, predicate_chains, chain_idx,
                 tuple_idx, local_excluded_chunk_ids, pruned_chunk_id_sets, applications,
                 failed, pruned_before, normalizations, subtractions, corrections>>

\* Lines 442-451 with from_expression yielding nullopt: `return {}`.
NormalizationFails ==
  /\ pc = "chain"
  /\ predicate_idx <= Len(CurrentChain)
  /\ ~excluded_chunk_ids_by_predicate_node[CurrentNode].cached
  /\ ~predicates[CurrentNode].ok
  /\ normalizations' = [normalizations EXCEPT ![CurrentNode] = @ + 1]
  /\ ReturnExclusions(ExclusionsWithoutNormalization(global_excluded_chunk_ids))
  /\ UNCHANGED <<finder_vars, cache_vars, plan, table, predicates, pruned_chunk_ids, table_statistics,
                 excluded_chunk_ids_by_predicate_node, predicate_chains, applications,
                 failed, pruned_before, subtractions, corrections>>

\* Lines 442-453 with from_expression yielding operator predicates.
Normalize ==
  /\ pc = "chain"
  /\ predicate_idx <= Len(CurrentChain)
  /\ ~excluded_chunk_ids_by_predicate_node[CurrentNode].cached
  /\ predicates[CurrentNode].ok
  /\ normalizations' = [normalizations EXCEPT ![CurrentNode] = @ + 1]
  /\ local_excluded_chunk_ids' = {}
  /\ tuple_idx' = 1
  /\ pc' = "tuple"
  /\ UNCHANGED <<finder_vars, cache_vars, plan, table, predicates, pruned_chunk_ids, table_statistics,
                 excluded_chunk_ids_by_predicate_node, predicate_chains, chain_idx,
                 predicate_idx, global_excluded_chunk_ids, pruned_chunk_id_sets,
                 applications, failed, pruned_before, subtractions, corrections>>

\* Lines 455-482: one of the `continue`s.
SkipTuple ==
  /\ pc = "tuple"
  /\ tuple_idx <= Len(predicates[CurrentNode].operator_predicates)
  /\ ~TupleIsUsable(CurrentTuple)
  /\ tuple_idx' = tuple_idx + 1
  /\ UNCHANGED <<finder_vars, cache_vars, plan, table, predicates, pruned_chunk_ids, table_statistics,
                 excluded_chunk_ids_by_predicate_node, pc, predicate_chains, chain_idx,
                 predicate_idx, global_excluded_chunk_ids, local_excluded_chunk_ids,
                 pruned_chunk_id_sets, applications, failed, pruned_before, normalizations,
                 subtractions, corrections>>

\* Lines 484-515: the loop over the chunks and the update of the statistics.
ScanChunks ==
  /\ pc = "tuple"
  /\ tuple_idx <= Len(predicates[CurrentNode].operator_predicates)
  /\ TupleIsUsable(CurrentTuple)
  /\ LET excluded == ExcludedChunkIDs(table, CurrentTuple)
         counted == NewlyPrunedChunkIDs(excluded, pruned_chunk_ids)
         num_rows_pruned == SumOfSizes(table, counted)
         old_statistics == OldStatistics(table_statistics, table)
     IN /\ local_excluded_chunk_ids' = local_excluded_chunk_ids \cup excluded
        /\ subtractions' = [id \in DOMAIN subtractions |->
                              IF id \in counted THEN subtractions[id] + 1 ELSE subtractions[id]]
        /\ IF StatisticsNeedUpdate(num_rows_pruned)
             THEN /\ table_statistics' =
                       prune_table_statistics(old_statistics, CurrentTuple, num_rows_pruned)
                  /\ corrections' = Append(corrections,
                       [node |-> CurrentNode, old_row_count |-> old_statistics.row_count,
                        from_override |-> table_statistics.present,
                        num_rows_pruned |-> num_rows_pruned])
             ELSE UNCHANGED <<table_statistics, corrections>>
  /\ tuple_idx' = tuple_idx + 1
  /\ UNCHANGED <<finder_vars, cache_vars, plan, table, predicates, pruned_chunk_ids,
                 excluded_chunk_ids_by_predicate_node, pc, predicate_chains, chain_idx,
                 predicate_idx, global_excluded_chunk_ids, pruned_chunk_id_sets,
                 applications, failed, pruned_before, normalizations>>

\* Lines 518-521: the node's set goes into the cache and into the chain's set.
CachePredicate ==
  /\ pc = "tuple"
  /\ tuple_idx > Len(predicates[CurrentNode].operator_predicates)
  /\ excluded_chunk_ids_by_predicate_node' =
       [excluded_chunk_ids_by_predicate_node EXCEPT
          ![CurrentNode] = [cached |-> TRUE, chunk_ids |-> local_excluded_chunk_ids]]
  /\ global_excluded_chunk_ids' = global_excluded_chunk_ids \cup local_excluded_chunk_ids
  /\ predicate_idx' = predicate_idx + 1
  /\ tuple_idx' = 0
  /\ pc' = "chain"
  /\ UNCHANGED <<finder_vars, cache_vars, plan, table, predicates, pruned_chunk_ids, table_statistics,
                 predicate_chains, chain_idx, local_excluded_chunk_ids, pruned_chunk_id_sets,
                 applications, failed, pruned_before, normalizations, subtractions,
                 corrections>>

\* Lines 405-406: the intersection is empty and the node is skipped.
NothingToPrune ==
  /\ pc = "intersect"
  /\ intersect_chunk_ids(pruned_chunk_id_sets) = {}
  /\ pc' = "done"
  /\ UNCHANGED <<finder_vars, cache_vars, plan, table, predicates, pruned_chunk_ids, table_statistics,
                 excluded_chunk_ids_by_predicate_node, predicate_chains, chain_idx,
                 predicate_idx, tuple_idx, global_excluded_chunk_ids,
                 local_excluded_chunk_ids, pruned_chunk_id_sets, applications, failed,
                 pruned_before, normalizations, subtractions, corrections>>

\* Lines 409-412.  The DebugAssert is compiled into a debug build only: with
\* pruned chunk ids already set, the debug build fails and the release build
\* goes on to set_pruned_chunk_ids.
SetPrunedChunkIds ==
  /\ pc = "intersect"
  /\ intersect_chunk_ids(pruned_chunk_id_sets) # {}
  /\ \/ /\ pruned_chunk_ids # <<>>
        /\ pc' = "failed"
        /\ failed' = TRUE
        /\ UNCHANGED pruned_chunk_ids
     \/ /\ pruned_chunk_ids' = Ascending(intersect_chunk_ids(pruned_chunk_id_sets))
        /\ pc' = "done"
        /\ UNCHANGED failed
  /\ UNCHANGED <<finder_vars, cache_vars, plan, table, predicates, table_statistics,
                 excluded_chunk_ids_by_predicate_node, predicate_chains, chain_idx,
                 predicate_idx, tuple_idx, global_excluded_chunk_ids,
                 local_excluded_chunk_ids, pruned_chunk_id_sets, applications,
                 pruned_before, normalizations, subtractions, corrections>>

Next ==
  \/ Apply
  \/ ChainEvaluated
  \/ CachedPredicate
  \/ NormalizationFails
  \/ Normalize
  \/ SkipTuple
  \/ ScanChunks
  \/ CachePredicate
  \/ NothingToPrune
  \/ SetPrunedChunkIds

Spec == Init /\ [][Next]_vars

\* ------------------------------------------------------------ row semantics

\* A scalar in halves, the unit in which int and float scalars compare.
InHalves(type, v) == IF type = "float" THEN v ELSE 2 * v

Comparable(value, data_type) ==
  /\ is_variant(value)
  /\ \/ is_arithmetic(data_type) /\ is_arithmetic(value.type)
     \/ data_type = value.type

ConditionHolds(condition, x, v, v2) ==
  CASE condition = "Equals" -> x = v
    [] condition = "LessThan" -> x < v
    [] condition = "LessThanEquals" -> x <= v
    [] condition = "GreaterThan" -> x > v
    [] condition = "GreaterThanEquals" -> x >= v
    [] condition = "BetweenInclusive" -> v <= x /\ x <= v2
    [] OTHER -> TRUE

\* Whether a row can satisfy an operator predicate when the plan is executed;
\* a comparison with a column or a placeholder may hold for any row.
RowSatisfiesTuple(row, operator_predicate) ==
  LET data_type == ColumnDataTypes[operator_predicate.column_id + 1]
      x == InHalves(data_type, row[operator_predicate.column_id + 1])
      value == operator_predicate.value
      value2 == operator_predicate.value2
  IN IF Comparable(value, data_type) /\ (value2.kind = "none" \/ Comparable(value2, data_type))
       THEN ConditionHolds(operator_predicate.predicate_condition, x,
                           InHalves(value.type, value.v), InHalves(value2.type, value2.v))
       ELSE TRUE

RowSatisfiesNode(row, node) ==
  predicates[node].ok =>
    \A i \in 1..Len(predicates[node].operator_predicates) :
      RowSatisfiesTuple(row, predicates[node].operator_predicates[i])

RowSatisfiesChain(row, chain) == \A i \in 1..Len(chain) : RowSatisfiesNode(row, chain[i])

PrunedChunkIDs == SeqToSet(pruned_chunk_ids)

CurrentRowCount ==
  IF table_statistics.present THEN table_statistics.row_count
                              ELSE TableStatisticsOf(table).row_count

\* ------------------------------------------------------------------ claims

\* C1: soundness.  Every pruned chunk is a chunk all of whose rows fail the
\* conjunction of the predicates of at least one chain of the stored table
\* node; a chunk with a row that satisfies the predicates of every chain is
\* never pruned.
C1_Soundness ==
  \A chunk_id \in PrunedChunkIDs :
    /\ chunk_id \in ChunkIDs(table)
    /\ \E i \in 1..Len(predicate_chains) :
         \A row \in get_chunk(table, chunk_id).rows : ~RowSatisfiesChain(row, predicate_chains[i])

\* C1 witness: a chunk was pruned while another chunk, which holds a row that
\* satisfies every chain, was kept.
C1_Witness ==
  /\ pc = "done"
  /\ PrunedChunkIDs # {}
  /\ \E chunk_id \in ChunkIDs(table) \ PrunedChunkIDs :
       \E row \in get_chunk(table, chunk_id).rows :
         \A i \in 1..Len(predicate_chains) : RowSatisfiesChain(row, predicate_chains[i])

\* C2: after an application, the pruned chunk ids of the stored table node
\* are exactly the chunk ids that are in the exclusion set of every chain.
C2_PrunedIsIntersection ==
  (pc = "done" /\ Len(pruned_chunk_id_sets) >= 1) =>
    PrunedChunkIDs = {chunk_id \in ChunkIDs(table) :
                        \A i \in 1..Len(pruned_chunk_id_sets) : chunk_id \in pruned_chunk_id_sets[i]}

\* C2 witness: two chains with different exclusion sets A and B, and a
\* non-empty pruned set smaller than their union.
C2_Witness ==
  /\ pc = "done"
  /\ Len(pruned_chunk_id_sets) = 2
  /\ pruned_chunk_id_sets[1] # pruned_chunk_id_sets[2]
  /\ PrunedChunkIDs # {}
  /\ PrunedChunkIDs # pruned_chunk_id_sets[1] \cup pruned_chunk_id_sets[2]

\* C3: a predicate node that cannot be normalized does not abort its chain:
\* the chunks excluded by the other predicate nodes of the chain are in the
\* exclusion set of the chain.
C3_ChainNotAborted ==
  \A i \in 1..Len(pruned_chunk_id_sets) :
    \A k \in 1..Len(predicate_chains[i]) :
      LET node == predicate_chains[i][k] IN
      (predicates[node].ok /\ excluded_chunk_ids_by_predicate_node[node].cached) =>
        excluded_chunk_ids_by_predicate_node[node].chunk_ids \subseteq pruned_chunk_id_sets[i]

\* C4: once the rule has pruned the stored table node, the row count of its
\* statistics is the row count of the table minus the rows of the pruned chunks.
C4_RowCountExact ==
  (pc = "done" /\ PrunedChunkIDs # {}) =>
    CurrentRowCount = TableStatisticsOf(table).row_count - SumOfSizes(table, PrunedChunkIDs)

\* C5: within one application the rows of a chunk are subtracted from the
\* statistics at most once.
C5_NoDoubleCounting ==
  \A chunk_id \in DOMAIN subtractions : subtractions[chunk_id] <= 1

\* C6: within one application a predicate node is normalized (and its chunks
\* scanned) at most once.
C6_EvaluatedOnce ==
  \A node \in DOMAIN normalizations : normalizations[node] <= 1

\* C7: an application to a stored table node that already carries pruned
\* chunk ids ends in the failed assertion.
C7_WriteOnce ==
  (pc \in {"done", "failed"} /\ pruned_before # <<>>) => failed

\* C8: when an application starts, the cache holds no entry.
C8_CacheEmptyAtStart ==
  (pc = "chain" /\ chain_idx = 1 /\ predicate_idx = 1 /\ pruned_chunk_id_sets = <<>>) =>
    \A node \in DOMAIN excluded_chunk_ids_by_predicate_node :
      ~excluded_chunk_ids_by_predicate_node[node].cached

\* C9: the exclusion set returned for a chain is the union of the exclusion
\* sets of the chain's predicate nodes.
C9_ChainIsUnion ==
  \A i \in 1..Len(pruned_chunk_id_sets) :
    pruned_chunk_id_sets[i] =
      UNION {excluded_chunk_ids_by_predicate_node[predicate_chains[i][k]].chunk_ids :
               k \in 1..Len(predicate_chains[i])}

\* ------------------------------------------- the chain finder on any plan

\* Kinds of the nodes above the stored table node: a predicate on the stored
\* table, a predicate on another table, a sort, an aggregate.
NodeChoices ==
  {<<"Predicate", TRUE>>, <<"Predicate", FALSE>>, <<"Sort", FALSE>>, <<"Aggregate", FALSE>>}

\* The outputs of node i: none, one or two nodes above it.
OutputChoices(i) ==
  {<<>>} \cup {<<j>> : j \in (i + 1)..NumNodes}
         \cup {o \in {<<j, k>> : j \in (i + 1)..NumNodes, k \in (i + 2)..NumNodes} : o[1] < o[2]}

\* The matching predicate nodes below a node: what a walk can have collected
\* when it reaches the node.
AccumulatedChains(p, node) ==
  {<<>>} \cup {<<m>> : m \in {n \in 1..(node - 1) : IsMatchingPredicate(p, n)}}

\* The ways to wire NumNodes nodes above one another.
Topologies ==
  {outs \in [1..NumNodes -> OutputChoices(1)] :
     /\ \A i \in 1..NumNodes : outs[i] \in OutputChoices(i)
     /\ \A j \in 2..NumNodes : \E i \in 1..(j - 1) : j \in SeqToSet(outs[i])}

InitChains ==
  /\ \E outs \in Topologies : \E kinds \in [2..NumNodes -> NodeChoices] :
       plan = Plan([i \in 1..NumNodes |-> IF i = 1 THEN "StoredTable" ELSE kinds[i][1]],
                   [i \in 1..NumNodes |-> outs[i]],
                   [i \in 1..NumNodes |-> IF i = 1 THEN FALSE ELSE kinds[i][2]])
  /\ table = <<>>
  /\ predicates = [node \in Nodes(plan) |-> NotNormalizable]
  /\ pruned_chunk_ids = <<>>
  /\ table_statistics = NoStatistics
  /\ excluded_chunk_ids_by_predicate_node = EmptyCache(Nodes(plan))
  /\ pc = "idle"
  /\ predicate_chains = <<>>
  /\ chain_idx = 0
  /\ predicate_idx = 0
  /\ tuple_idx = 0
  /\ global_excluded_chunk_ids = {}
  /\ local_excluded_chunk_ids = {}
  /\ pruned_chunk_id_sets = <<>>
  /\ applications = 0
  /\ failed = FALSE
  /\ pruned_before = <<>>
  /\ normalizations = NoCounts(Nodes(plan))
  /\ subtractions = NoCounts(ChunkIDs(table))
  /\ corrections = <<>>
  /\ walk_node = StoredTableNode
  /\ walk_chain = <<>>
  /\ CacheUnused

\* One call of find_predicate_chains_recursively.
FindPredicateChains ==
  /\ pc = "idle"
  /\ \E node \in Nodes(plan) : \E chain \in AccumulatedChains(plan, node) :
       /\ walk_node' = node
       /\ walk_chain' = chain
       /\ predicate_chains' = find_predicate_chains_recursively(plan, node, chain)
  /\ pc' = "found"
  /\ UNCHANGED <<cache_vars, plan, table, predicates, pruned_chunk_ids, table_statistics,
                 excluded_chunk_ids_by_predicate_node, chain_idx, predicate_idx, tuple_idx,
                 global_excluded_chunk_ids, local_excluded_chunk_ids, pruned_chunk_id_sets,
                 applications, failed, pruned_before, normalizations, subtractions,
                 corrections>>

NextChains == FindPredicateChains

SpecChains == InitChains /\ [][NextChains]_vars

\* The nodes on the upward paths from a node, the node included.
RECURSIVE Above(_, _)
Above(p, node) ==
  {node} \cup UNION {Above(p, p.outputs[node][k]) : k \in 1..Len(p.outputs[node])}

IsPrefix(a, b) == Len(a) <= Len(b) /\ \A i \in 1..Len(a) : b[i] = a[i]

RECURSIVE Flatten(_)
Flatten(seqs) == IF seqs = <<>> THEN <<>> ELSE Head(seqs) \o Flatten(Tail(seqs))

ChainCompatibleKinds ==
  {"Predicate", "Validate", "StoredTable", "Join", "Alias", "Projection", "Sort"}

\* The upward paths from a node: each follows one output per node and ends at
\* the first node of another kind, or at a node without outputs.
RECURSIVE PathsFrom(_, _)
PathsFrom(p, node) ==
  IF p.type[node] \notin ChainCompatibleKinds \/ p.outputs[node] = <<>>
    THEN {<<node>>}
    ELSE {<<node>> \o path :
            path \in UNION {PathsFrom(p, p.outputs[node][k]) : k \in 1..Len(p.outputs[node])}}

\* The paths that end at a node of another kind.
TerminatedPaths(p, node) ==
  {path \in PathsFrom(p, node) : p.type[path[Len(path)]] \notin ChainCompatibleKinds}

\* The chain of a path: the accumulated chain followed by the matching
\* predicate nodes of the path, from the bottom up.
ChainOfPath(p, path, accumulated) ==
  LET Matching(n) == IsMatchingPredicate(p, n) IN accumulated \o SelectSeq(path, Matching)

IsOtherTablePredicate(p, n) == p.type[n] = "Predicate" /\ ~p.matches[n]

\* C11: a returned chain holds, after the accumulated chain, only predicate
\* nodes whose columns all refer to the stored table, from the bottom up; a
\* predicate node on another table is passed without ending the chain: the
\* chain of a path through such a node holds every matching predicate of the
\* path, those above the node included, in walk order.
C11_NonMatchingTransparent ==
  pc = "found" =>
    /\ \A i \in 1..Len(predicate_chains) :
         /\ IsPrefix(walk_chain, predicate_chains[i])
         /\ \A j \in (Len(walk_chain) + 1)..Len(predicate_chains[i]) :
              /\ IsMatchingPredicate(plan, predicate_chains[i][j])
              /\ j > Len(walk_chain) + 1 =>
                   /\ predicate_chains[i][j] # predicate_chains[i][j - 1]
                   /\ predicate_chains[i][j] \in Above(plan, predicate_chains[i][j - 1])
    /\ \A path \in TerminatedPaths(plan, walk_node) :
         (\E k \in 1..Len(path) : IsOtherTablePredicate(plan, path[k])) =>
           \E i \in 1..Len(predicate_chains) :
             predicate_chains[i] = ChainOfPath(plan, path, walk_chain)

\* C11 witness: a walk from the stored table node through a predicate on
\* another table, then a matching predicate, up to an aggregate; the chain
\* returned holds the matching predicate.
C11_Witness ==
  /\ pc = "found"
  /\ walk_node = StoredTableNode
  /\ \E path \in TerminatedPaths(plan, walk_node) :
       /\ Len(path) = 4
       /\ IsOtherTablePredicate(plan, path[2])
       /\ IsMatchingPredicate(plan, path[3])
       /\ predicate_chains = <<<<path[3]>>>>

\* C12 as stated: for every upward path from the start node, the path that
\* ends at a chain-compatible node without outputs included, a chain holding
\* exactly the matching predicate nodes of the path is returned.
C12_AllPathsHaveChains ==
  pc = "found" =>
    \A path \in PathsFrom(plan, walk_node) :
      \E i \in 1..Len(predicate_chains) :
        predicate_chains[i] = ChainOfPath(plan, path, walk_chain)

\* C12: the chains returned are those of the upward paths that end at a node
\* of a kind a chain may not pass through, one chain for each such path, each
\* holding exactly the matching predicate nodes of its path; a path that ends
\* at a chain-compatible node without outputs has no chain, and a walk with
\* such paths only returns no chain at all.
C12_ChainsOfTerminatedPaths ==
  pc = "found" =>
    /\ SeqToSet(predicate_chains) =
         {ChainOfPath(plan, path, walk_chain) : path \in TerminatedPaths(plan, walk_node)}
    /\ Len(predicate_chains) = Cardinality(TerminatedPaths(plan, walk_node))

\* C12 witness: the stored table node has two outputs; the path of one ends
\* at an aggregate and has its chain, the path of the other ends at a matching
\* predicate without outputs and has none.
C12_Witness ==
  /\ pc = "found"
  /\ walk_node = StoredTableNode
  /\ Len(plan.outputs[walk_node]) = 2
  /\ Cardinality(TerminatedPaths(plan, walk_node)) = 1
  /\ \E path \in PathsFrom(plan, walk_node) \ TerminatedPaths(plan, walk_node) :
       IsMatchingPredicate(plan, path[Len(path)])
  /\ Len(predicate_chains) = 1

HasNoPruningStatistics(chunk) == ~chunk.present \/ ~chunk.pruning_statistics.present

\* C14: a chunk that is missing or has no pruning statistics is in no set of
\* excluded chunk ids (that of an operator predicate, of a predicate node, of
\* a chain), is not in the pruned chunk ids, and its rows are never
\* subtracted from the statistics.
C14_NoStatisticsNoPruning ==
  \A chunk_id \in ChunkIDs(table) :
    HasNoPruningStatistics(get_chunk(table, chunk_id)) =>
      /\ chunk_id \notin local_excluded_chunk_ids
      /\ chunk_id \notin global_excluded_chunk_ids
      /\ \A node \in Nodes(plan) :
           chunk_id \notin excluded_chunk_ids_by_predicate_node[node].chunk_ids
      /\ \A i \in 1..Len(pruned_chunk_id_sets) : chunk_id \notin pruned_chunk_id_sets[i]
      /\ chunk_id \notin PrunedChunkIDs
      /\ subtractions[chunk_id] = 0

\* C14 witness: two chunks with the same rows, one with pruning statistics
\* and one without; the first is pruned, the second stays.
C14_Witness ==
  /\ pc = "done"
  /\ \E with_statistics, without \in ChunkIDs(table) :
       /\ get_chunk(table, without).present
       /\ ~get_chunk(table, without).pruning_statistics.present
       /\ get_chunk(table, with_statistics).present
       /\ get_chunk(table, with_statistics).rows = get_chunk(table, without).rows
       /\ with_statistics \in PrunedChunkIDs
       /\ without \notin PrunedChunkIDs
       /\ subtractions[with_statistics] > 0

\* An operator predicate whose value or second value is not a plain scalar
\* or does not cast losslessly to the data type of its column.
TupleIsUnusable(operator_predicate) ==
  LET column_data_type == ColumnDataTypes[operator_predicate.column_id + 1]
      Unusable(value) ==
        ~is_variant(value) \/ ~lossless_variant_cast(value, column_data_type).ok
  IN \/ Unusable(operator_predicate.value)
     \/ operator_predicate.value2.kind # "none" /\ Unusable(operator_predicate.value2)

\* C15: the step over an operator predicate whose value or second value is
\* not a plain scalar, or does not cast losslessly to the column's type, adds
\* no chunk to the exclusion set, leaves the statistics and the pruned chunk
\* ids alone and fails nothing; the evaluation goes on with the next operator
\* predicate of the node, in the same chain.
C15_UnusableTupleSkipped ==
  [][(/\ pc = "tuple"
      /\ tuple_idx <= Len(predicates[CurrentNode].operator_predicates)
      /\ TupleIsUnusable(CurrentTuple))
       => /\ local_excluded_chunk_ids' = local_excluded_chunk_ids
          /\ global_excluded_chunk_ids' = global_excluded_chunk_ids
          /\ table_statistics' = table_statistics
          /\ corrections' = corrections
          /\ subtractions' = subtractions
          /\ pruned_chunk_ids' = pruned_chunk_ids
          /\ ~failed'
          /\ pc' = "tuple"
          /\ tuple_idx' = tuple_idx + 1
          /\ predicate_idx' = predicate_idx
          /\ chain_idx' = chain_idx]_vars

\* C15 witness: a predicate node whose first operator predicate has a value
\* that does not cast and whose second has a placeholder; its third one was
\* evaluated and excluded a chunk, and the statistics were corrected for it.
C15_Witness ==
  /\ pc = "tuple"
  /\ tuple_idx = 4
  /\ TupleIsUnusable(predicates[CurrentNode].operator_predicates[1])
  /\ is_variant(predicates[CurrentNode].operator_predicates[1].value)
  /\ TupleIsUnusable(predicates[CurrentNode].operator_predicates[2])
  /\ ~is_variant(predicates[CurrentNode].operator_predicates[2].value2)
  /\ local_excluded_chunk_ids # {}
  /\ Len(corrections) = 1

\* C16: a correction starts from the statistics set on the stored table node
\* when there are any, and from the statistics of the table only when there
\* are none, and its result becomes the statistics set on the node: every
\* change of the statistics keeps, for every column, the transformations
\* already applied and adds one to them, and takes the rows away from the row
\* count left by the correction before it.
C16_CorrectionsCompound ==
  [][table_statistics' # table_statistics =>
       LET old == IF table_statistics.present THEN table_statistics
                                              ELSE TableStatisticsOf(table)
           correction == corrections'[Len(corrections')]
       IN /\ table_statistics'.present
          /\ Len(corrections') = Len(corrections) + 1
          /\ correction.from_override = table_statistics.present
          /\ correction.old_row_count = old.row_count
          /\ table_statistics'.row_count = old.row_count - correction.num_rows_pruned
          /\ Len(table_statistics'.column_statistics) = Len(old.column_statistics)
          /\ \A c \in 1..Len(old.column_statistics) :
               /\ Len(table_statistics'.column_statistics[c]) = Len(old.column_statistics[c]) + 1
               /\ IsPrefix(old.column_statistics[c], table_statistics'.column_statistics[c])]_vars

\* C16 witness: the second correction of an application: it started from the
\* statistics the first one had set, and every column has two transformations.
C16_Witness ==
  /\ Len(corrections) = 2
  /\ corrections[2].from_override
  /\ corrections[2].old_row_count = corrections[1].old_row_count - corrections[1].num_rows_pruned
  /\ table_statistics.present
  /\ \A c \in 1..ColumnCount : Len(table_statistics.column_statistics[c]) = 2

\* C17: the statistics set on the stored table node are replaced only by a
\* step that removed at least one row, and the row count of the new
\* statistics is strictly below the row count of the statistics they replace
\* (those of the table when none were set).
C17_RowCountDecreases ==
  [][table_statistics' # table_statistics =>
       /\ pc = "tuple"
       /\ tuple_idx <= Len(predicates[CurrentNode].operator_predicates)
       /\ SumOfSizes(table, ExcludedChunkIDs(table, CurrentTuple) \ PrunedChunkIDs) > 0
       /\ table_statistics'.row_count < CurrentRowCount]_vars

\* C17 witness: a predicate node has lowered the row count; the operator
\* predicate of the next node of the chain was evaluated on the chunks,
\* excluded none of them, and the statistics are those the first node left.
C17_Witness ==
  /\ pc = "tuple"
  /\ tuple_idx = 2
  /\ ~TupleIsUnusable(predicates[CurrentNode].operator_predicates[1])
  /\ local_excluded_chunk_ids = {}
  /\ Len(corrections) = 1
  /\ corrections[1].node # CurrentNode
  /\ table_statistics.row_count = corrections[1].old_row_count - corrections[1].num_rows_pruned
  /\ table_statistics.row_count < TableStatisticsOf(table).row_count

\* C18: one correction for an operator predicate that removed rows gives
\* statistics with as many columns as before; the column of the operator
\* predicate, and no other, gets pruned(removed rows, condition, value,
\* second value), every other column gets scaled(1 - removed rows / old row
\* count), and the row count is the old row count less the removed rows.
C18_CorrectionShape ==
  [][table_statistics' # table_statistics =>
       LET old == IF table_statistics.present THEN table_statistics
                                              ELSE TableStatisticsOf(table)
           new == table_statistics'
           predicate == CurrentTuple
           removed == corrections'[Len(corrections')].num_rows_pruned
           Added(c) == new.column_statistics[c][Len(new.column_statistics[c])]
       IN /\ Len(new.column_statistics) = Len(old.column_statistics)
          /\ Len(new.column_statistics) = ColumnCount
          /\ \A c \in 1..ColumnCount :
               /\ Len(new.column_statistics[c]) = Len(old.column_statistics[c]) + 1
               /\ IF c - 1 = predicate.column_id
                    THEN Added(c) = [op |-> "pruned", rows |-> removed,
                                     condition |-> predicate.predicate_condition,
                                     value |-> predicate.value, value2 |-> predicate.value2,
                                     num |-> 0, den |-> 0]
                    ELSE Added(c) = [op |-> "scaled", rows |-> 0, condition |-> "none",
                                     value |-> NoValue, value2 |-> NoValue,
                                     num |-> old.row_count - removed, den |-> old.row_count]
          /\ Cardinality({c \in 1..ColumnCount : Added(c).op = "pruned"}) = 1
          /\ new.row_count = old.row_count - removed]_vars

\* C18 witness: the first correction of a table, for an operator predicate on
\* the second column: the second column was pruned and the first one scaled
\* by the share of the rows that are left.
C18_Witness ==
  /\ Len(corrections) = 1
  /\ table_statistics.present
  /\ Len(table_statistics.column_statistics[1]) = 1
  /\ table_statistics.column_statistics[2][1].op = "pruned"
  /\ table_statistics.column_statistics[2][1].rows = corrections[1].num_rows_pruned
  /\ table_statistics.column_statistics[1][1].op = "scaled"
  /\ table_statistics.column_statistics[1][1].num = table_statistics.row_count
  /\ table_statistics.column_statistics[1][1].den = TableStatisticsOf(table).row_count
  /\ table_statistics.row_count > 0

\* ------------------------------------- intersect_chunk_ids on any list

\* The most sets of excluded chunk ids in a list.
MaxSets == 3

\* The lists of sets of excluded chunk ids, one set for each chain.
ChunkIdSetLists == UNION {[1..n -> SUBSET (0..(NumChunks - 1))] : n \in 0..MaxSets}

InitIntersect ==
  /\ pruned_chunk_id_sets \in ChunkIdSetLists
  /\ plan = Plan(<<"StoredTable">>, <<<<>>>>, <<FALSE>>)
  /\ table = <<>>
  /\ predicates = [node \in Nodes(plan) |-> NotNormalizable]
  /\ pruned_chunk_ids = <<>>
  /\ table_statistics = NoStatistics
  /\ excluded_chunk_ids_by_predicate_node = EmptyCache(Nodes(plan))
  /\ pc = "chain"
  /\ predicate_chains = <<>>
  /\ chain_idx = 0
  /\ predicate_idx = 0
  /\ tuple_idx = 0
  /\ global_excluded_chunk_ids = {}
  /\ local_excluded_chunk_ids = {}
  /\ applications = 0
  /\ failed = FALSE
  /\ pruned_before = <<>>
  /\ normalizations = NoCounts(Nodes(plan))
  /\ subtractions = NoCounts(ChunkIDs(table))
  /\ corrections = <<>>
  /\ walk_node = StoredTableNode
  /\ walk_chain = <<>>
  /\ CacheUnused

\* Lines 405-412 for a list of sets: the intersection becomes the pruned
\* chunk ids of the stored table node (an empty one leaves them empty).
IntersectChunkIds ==
  /\ pc = "chain"
  /\ pruned_chunk_ids' = Ascending(intersect_chunk_ids(pruned_chunk_id_sets))
  /\ pc' = "done"
  /\ UNCHANGED <<finder_vars, cache_vars, plan, table, predicates, table_statistics,
                 excluded_chunk_ids_by_predicate_node, predicate_chains, chain_idx,
                 predicate_idx, tuple_idx, global_excluded_chunk_ids, local_excluded_chunk_ids,
                 pruned_chunk_id_sets, applications, failed, pruned_before, normalizations,
                 subtractions, corrections>>

NextIntersect == IntersectChunkIds

SpecIntersect == InitIntersect /\ [][NextIntersect]_vars

\* C19: the intersection of a list of sets of excluded chunk ids is empty
\* when the list is empty and when any of its sets, at any position, is
\* empty; it is the one set of a list of one; for a list of two, three or
\* more sets it holds exactly the chunk ids that are in every set.
C19_IntersectionEdgeCases ==
  pc = "done" =>
    LET sets == pruned_chunk_id_sets
        result == SeqToSet(pruned_chunk_ids)
    IN /\ Len(sets) = 0 => result = {}
       /\ (\E i \in 1..Len(sets) : sets[i] = {}) => result = {}
       /\ Len(sets) = 1 => result = sets[1]
       /\ Len(sets) >= 1 =>
            result = {chunk_id \in 0..(NumChunks - 1) : \A i \in 1..Len(sets) : chunk_id \in sets[i]}

\* C19 witness: three sets that differ from one another; the result is not
\* empty and is smaller than what the first two sets have in common.
C19_Witness ==
  /\ pc = "done"
  /\ Len(pruned_chunk_id_sets) = 3
  /\ pruned_chunk_id_sets[1] # pruned_chunk_id_sets[2]
  /\ pruned_chunk_id_sets[2] # pruned_chunk_id_sets[3]
  /\ pruned_chunk_ids # <<>>
  /\ SeqToSet(pruned_chunk_ids) # pruned_chunk_id_sets[1] \cap pruned_chunk_id_sets[2]

\* C20: when the intersection of the chains' sets is empty at the end of the
\* first application (no chain, an empty chain, a chain with an empty set,
\* or chains with nothing in common), the pruned chunk ids are still empty
\* and the stored table node still has no statistics of its own.
C20_UnprunedUntouched ==
  (/\ pc = "done"
   /\ applications = 1
   /\ intersect_chunk_ids(pruned_chunk_id_sets) = {})
    => /\ pruned_chunk_ids = <<>>
       /\ table_statistics = NoStatistics

\* ------------------------------------------- the range of the statistics

\* C21: after an application the row count of the statistics set on the
\* stored table node is not negative and not below the rows of the chunks
\* that are not pruned, and no correction of the application removed more
\* rows than the statistics it corrected had (so that its scale factor,
\* 1 - removed rows / old row count, was between 0 and 1).
C21_RowCountInRange ==
  (pc = "done" /\ table_statistics.present) =>
    /\ table_statistics.row_count >= 0
    /\ table_statistics.row_count >=
         SumOfSizes(table, {chunk_id \in ChunkIDs(table) :
                              get_chunk(table, chunk_id).present /\ chunk_id \notin PrunedChunkIDs})
    /\ \A k \in 1..Len(corrections) :
         /\ corrections[k].old_row_count > 0
         /\ corrections[k].num_rows_pruned <= corrections[k].old_row_count

\* ------------------------------------------------- the calls of a RandomCache

rule_vars == <<plan, table, predicates, pruned_chunk_ids, table_statistics,
               excluded_chunk_ids_by_predicate_node, pc, predicate_chains, chain_idx,
               predicate_idx, tuple_idx, global_excluded_chunk_ids, local_excluded_chunk_ids,
               pruned_chunk_id_sets, applications, failed, pruned_before, normalizations,
               subtractions, corrections>>

\* The rule of a state machine that has none.
RuleUnused ==
  /\ plan = Plan(<<"StoredTable">>, <<<<>>>>, <<FALSE>>)
  /\ table = <<>>
  /\ predicates = [node \in Nodes(plan) |-> NotNormalizable]
  /\ pruned_chunk_ids = <<>>
  /\ table_statistics = NoStatistics
  /\ excluded_chunk_ids_by_predicate_node = EmptyCache(Nodes(plan))
  /\ pc = "idle"
  /\ predicate_chains = <<>>
  /\ chain_idx = 0
  /\ predicate_idx = 0
  /\ tuple_idx = 0
  /\ global_excluded_chunk_ids = {}
  /\ local_excluded_chunk_ids = {}
  /\ pruned_chunk_id_sets = <<>>
  /\ applications = 0
  /\ failed = FALSE
  /\ pruned_before = <<>>
  /\ normalizations = NoCounts(Nodes(plan))
  /\ subtractions = NoCounts(ChunkIDs(table))
  /\ corrections = <<>>
  /\ walk_node = StoredTableNode
  /\ walk_chain = <<>>

\* RandomCache(capacity): an empty cache.
InitCache ==
  /\ RuleUnused
  /\ capacity \in 1..MaxCapacity
  /\ list = <<>>
  /\ map = EmptyMap
  /\ returned = NoKey
  /\ value_read = NothingRead
  /\ crashed = FALSE
  /\ only_sets = TRUE

\* set(key, value), lines 26-53.  A write through an index that is outside
\* the list is undefined: it leaves the entries as they are, or ends the process.
set(key, value) ==
  /\ ~crashed
  /\ IF has(key)
       THEN /\ IF InRange(list, map[key])
                 THEN /\ list' = [list EXCEPT ![map[key] + 1].second = value]
                      /\ crashed' = FALSE
                 ELSE /\ list' = list
                      /\ crashed' \in BOOLEAN
            /\ map' = map
            /\ returned' = NoKey
       ELSE IF CapacityReached(list, capacity)
              THEN \E index \in RandomIndexes(capacity) :
                     LET evicted == list[index + 1].first IN
                     /\ map' = [[map EXCEPT ![evicted] = NoIndex] EXCEPT ![key] = index]
                     /\ list' = [list EXCEPT ![index + 1] = KeyValuePair(key, value)]
                     /\ returned' = evicted
                     /\ crashed' = FALSE
              ELSE /\ list' = Append(list, KeyValuePair(key, value))
                   /\ map' = [map EXCEPT ![key] = Len(list)]
                   /\ returned' = NoKey
                   /\ crashed' = FALSE
  /\ UNCHANGED <<finder_vars, rule_vars, capacity, value_read, only_sets>>

\* What get(key) can return, lines 56-63: the value at the key's index; any
\* value when the key is not in the map or its index is outside the list.
GetOutcomes(l, m, key) ==
  IF m[key] # NoIndex /\ InRange(l, m[key]) THEN {l[m[key] + 1].second} ELSE Values

get(key) ==
  /\ ~crashed
  /\ IF has(key) /\ InRange(list, map[key])
       THEN /\ value_read' = list[map[key] + 1].second
            /\ crashed' = FALSE
       ELSE \/ /\ value_read' \in Values
               /\ crashed' = FALSE
            \/ /\ value_read' = value_read
               /\ crashed' = TRUE
  /\ UNCHANGED <<finder_vars, rule_vars, list, map, capacity, returned, only_sets>>

\* clear(), lines 69-72
clear ==
  /\ ~crashed
  /\ list' = <<>>
  /\ map' = EmptyMap
  /\ only_sets' = FALSE
  /\ UNCHANGED <<finder_vars, rule_vars, capacity, returned, value_read, crashed>>

\* clear_and_resize(capacity), lines 74-80
clear_and_resize(c) ==
  /\ ~crashed
  /\ list' = <<>>
  /\ map' = EmptyMap
  /\ capacity' = c
  /\ only_sets' = FALSE
  /\ UNCHANGED <<finder_vars, rule_vars, returned, value_read, crashed>>

\* resize(capacity), lines 82-92
resize(c) ==
  /\ ~crashed
  /\ IF Len(list) > c
       THEN LET shrunk == ResizeLoop(list, map, c, 0) IN
            /\ list' = shrunk.list
            /\ map' = shrunk.map
       ELSE UNCHANGED <<list, map>>
  /\ capacity' = c
  /\ only_sets' = FALSE
  /\ UNCHANGED <<finder_vars, rule_vars, returned, value_read, crashed>>

NextCache ==
  \/ \E key \in Keys : \E value \in Values : set(key, value)
  \/ \E key \in Keys : get(key)
  \/ clear
  \/ \E c \in 1..MaxCapacity : clear_and_resize(c)
  \/ \E c \in 1..MaxCapacity : resize(c)

SpecCache == InitCache /\ [][NextCache]_vars

\* The keys of the entries of a list.
ListKeys(l) == {l[i].first : i \in 1..Len(l)}

\* The values a list holds for a key.
OwnValues(l, key) == {l[i].second : i \in {j \in 1..Len(l) : l[j].first = key}}

\* C22: after any calls of set, clear, clear_and_resize and resize the map
\* and the list hold the same keys, every key that has() reports is mapped
\* to an index inside the list whose entry carries that key, and get() of
\* the key returns the value of that entry.
C22_IndexConsistency ==
  ~crashed =>
    /\ ListKeys(list) = {key \in Keys : has(key)}
    /\ \A key \in Keys :
         has(key) =>
           /\ InRange(list, map[key])
           /\ list[map[key] + 1].first = key
           /\ GetOutcomes(list, map, key) = OwnValues(list, key)

\* C23: a cache constructed with a capacity of at least 1 on which only
\* set() (and get()) was called never reports a size() above its capacity,
\* and its list holds no more entries than that.
C23_CapacityBound ==
  (only_sets /\ ~crashed) =>
    /\ capacity >= 1
    /\ size <= capacity
    /\ Len(list) <= capacity

\* C23 witness: a full cache of capacity two or more whose last set() evicted
\* a key.
C23_Witness ==
  /\ only_sets
  /\ capacity >= 2
  /\ size = capacity
  /\ returned # NoKey
  /\ ~has(returned)

\* size() of a map
SizeOf(m) == Cardinality({key \in Keys : m[key] # NoIndex})

\* C24: set() of a key that is not cached, on a cache that holds capacity
\* entries, returns one key that was cached; afterwards that key is not
\* cached, the new key is cached with the new value, every other cached key
\* is still cached and get() returns for it what it returned before, and
\* size() is what it was.  On a cache that holds fewer entries the call
\* returns no key and every cached key stays cached with its value.
C24_Eviction ==
  [][\A key \in Keys : \A value \in Values :
       (set(key, value) /\ ~has(key) /\ ~crashed') =>
         /\ map'[key] # NoIndex
         /\ GetOutcomes(list', map', key) = {value}
         /\ size = capacity =>
              /\ returned' # NoKey
              /\ has(returned')
              /\ map'[returned'] = NoIndex
              /\ SizeOf(map') = size
              /\ \A other \in Keys \ {key, returned'} :
                   has(other) => /\ map'[other] # NoIndex
                                 /\ GetOutcomes(list', map', other) = GetOutcomes(list, map, other)
         /\ size < capacity =>
              /\ returned' = NoKey
              /\ SizeOf(map') = size + 1
              /\ \A other \in Keys \ {key} :
                   has(other) => /\ map'[other] # NoIndex
                                 /\ GetOutcomes(list', map', other) = GetOutcomes(list, map, other)]_vars

\* C25: set() of a key that is cached returns no key, leaves size() and the
\* map as they are, changes no entry of the list that belongs to another
\* key, and afterwards get() returns the new value for the key and, for
\* every other cached key, what it returned before; also on a full cache.
C25_Overwrite ==
  [][\A key \in Keys : \A value \in Values :
       (set(key, value) /\ has(key) /\ ~crashed') =>
         /\ returned' = NoKey
         /\ SizeOf(map') = size
         /\ map' = map
         /\ Len(list') = Len(list)
         /\ \A i \in 1..Len(list) : list[i].first # key => list'[i] = list[i]
         /\ GetOutcomes(list', map', key) = {value}
         /\ \A other \in Keys \ {key} :
              has(other) => GetOutcomes(list', map', other) = GetOutcomes(list, map, other)]_vars

\* C26: resize(c) on a cache that holds more than c entries leaves at most c
\* of them, as many in the list as in the map, and get() of every key that
\* is still cached returns the value the cache held for it; resize(c) on a
\* cache that holds at most c entries changes no entry.
C26_Shrink ==
  [][\A c \in 1..MaxCapacity :
       resize(c) =>
         /\ capacity' = c
         /\ Len(list) > c =>
              /\ SizeOf(map') <= c
              /\ Len(list') = SizeOf(map')
              /\ \A key \in Keys :
                   map'[key] # NoIndex =>
                     /\ has(key)
                     /\ GetOutcomes(list', map', key) = OwnValues(list', key)
                     /\ OwnValues(list', key) = OwnValues(list, key)
         /\ Len(list) <= c => list' = list /\ map' = map]_vars

====
